---- MODULE Spec2Model ----
(***************************************************************************)
(* Model of jpthalman/CarND-Term1:                                         *)
(*   Projects/VehicleDetection/processing.py   slide_window, get_windows,  *)
(*                                             draw_boxes                  *)
(*   Projects/VehicleDetection/classifier.py   load_data                   *)
(*   Projects/BehavioralCloning/visualize.py   VisualizeActivations,       *)
(*                                             load_data, __main__         *)
(*                                                                         *)
(* Five specifications share the variables:                                *)
(*   SpecWindow  a caller of slide_window / get_windows                    *)
(*   SpecBoxes   a caller of draw_boxes                                    *)
(*   SpecData    load_data of the classifier over a data directory         *)
(*   SpecLoad    load_data applied to a driving log                        *)
(*   Spec        the visualize.py command line and direct calls of         *)
(*               heat_map / from_video on one VisualizeActivations         *)
(***************************************************************************)
EXTENDS Integers, Sequences, FiniteSets, TLC

VARIABLES
  ld,            \* the running load_data call of the vehicle classifier
  db,            \* the running draw_boxes call and the arrays it works on
  sw,            \* the running slide_window call: its arguments, locals and position
  gw,            \* the caller of slide_window: a direct call or get_windows
  env,           \* what the run finds outside: log rows, files on disk, video, model
  va,            \* the VisualizeActivations instance (self)
  hm,            \* the running heat_map call
  fv,            \* the running from_video call
  cli,           \* the visualize.py __main__ run
  api,           \* a caller that calls heat_map / from_video directly
  io,            \* the I/O and library calls made so far, in order
  out            \* the video file written, if any

\* Python's None and optional values: None is {}, a present value x is {x}
None == {}
Some(x) == {x}
Val(o) == CHOOSE x \in o : TRUE

\* a raised exception
Exception(type, msg) == [type |-> type, msg |-> msg]

(***************************************************************************)
(* Python float arithmetic (IEEE-754 binary64, round to nearest even).     *)
(* A float is [m, e]: the dyadic rational m * 2^(-e), where m is a natural *)
(* number held as a little-endian sequence of limbs in base 2^15 without   *)
(* high zero limbs (<<>> is zero).  Overlap fractions are decimal literals *)
(* with two places, given in hundredths.                                   *)
(***************************************************************************)
MantissaBits == 53
LimbBits == 15
Base == 2^LimbBits
LiteralLimbs == 5

Limb(l, i) == IF i \in 1..Len(l) THEN l[i] ELSE 0

Trim(l) ==
  LET nz == {i \in 1..Len(l) : l[i] # 0}
  IN  IF nz = {} THEN <<>>
      ELSE SubSeq(l, 1, CHOOSE i \in nz : \A j \in nz : j <= i)

RECURSIVE LimbsOfNat(_)
LimbsOfNat(n) == IF n = 0 THEN <<>> ELSE <<n % Base>> \o LimbsOfNat(n \div Base)

RECURSIVE NatOfLimbs(_)
NatOfLimbs(l) == IF l = <<>> THEN 0 ELSE Head(l) + Base * NatOfLimbs(Tail(l))

RECURSIVE LimbsInc(_)
LimbsInc(l) ==
  IF l = <<>> THEN <<1>>
  ELSE IF Head(l) + 1 < Base THEN <<Head(l) + 1>> \o Tail(l)
       ELSE <<0>> \o LimbsInc(Tail(l))

RECURSIVE LimbsMulSmall(_, _, _)
LimbsMulSmall(l, k, carry) ==
  IF l = <<>> THEN LimbsOfNat(carry)
  ELSE LET t == Head(l) * k + carry
       IN  <<t % Base>> \o LimbsMulSmall(Tail(l), k, t \div Base)

\* a - b for naturals a >= b, limb by limb with borrow
RECURSIVE LimbsSub(_, _, _)
LimbsSub(a, b, borrow) ==
  IF a = <<>> THEN <<>>
  ELSE LET t == Head(a) - Limb(b, 1) - borrow
       IN  <<t % Base>> \o
           LimbsSub(Tail(a), IF b = <<>> THEN <<>> ELSE Tail(b), IF t < 0 THEN 1 ELSE 0)

LimbsPow2(e) == [i \in 1..(e \div LimbBits + 1) |->
                   IF i = e \div LimbBits + 1 THEN 2^(e % LimbBits) ELSE 0]

BitLen(l) ==
  IF l = <<>> THEN 0
  ELSE LimbBits * (Len(l) - 1)
       + (CHOOSE n \in 1..LimbBits : 2^(n - 1) <= l[Len(l)] /\ l[Len(l)] < 2^n)

\* bit i of l, bit 0 the least significant
Bit(l, i) == (Limb(l, i \div LimbBits + 1) \div 2^(i % LimbBits)) % 2

ShiftRight(l, k) ==
  LET q == k \div LimbBits
      r == k % LimbBits
  IN  Trim([i \in 1..(IF Len(l) > q THEN Len(l) - q ELSE 0) |->
              Limb(l, i + q) \div 2^r + (Limb(l, i + q + 1) % 2^r) * 2^(LimbBits - r)])

\* round m * 2^(-e) (plus a nonzero tail below m when inexact) to 53
\* significant bits, ties to even
Round53(x, inexact) ==
  IF BitLen(x.m) <= MantissaBits THEN x
  ELSE LET k == BitLen(x.m) - MantissaBits
           kept == ShiftRight(x.m, k)
           half == Bit(x.m, k - 1) = 1
           sticky == inexact \/ \E i \in 0..(k - 2) : Bit(x.m, i) = 1
           up == half /\ (sticky \/ Bit(kept, 0) = 1)
       IN  [m |-> IF up THEN LimbsInc(kept) ELSE kept, e |-> x.e - k]

\* n limbs of the binary expansion of r/d, most significant first
RECURSIVE FracLimbs(_, _, _)
FracLimbs(r, d, n) ==
  IF n = 0 THEN [limbs |-> <<>>, rem |-> r]
  ELSE LET t == r * Base
           rest == FracLimbs(t % d, d, n - 1)
       IN  [limbs |-> rest.limbs \o <<t \div d>>, rem |-> rest.rem]

\* the float denoted by the decimal literal a/100, 0 <= a < 100
FloatLiteral(a) ==
  LET fl == FracLimbs(a, 100, LiteralLimbs)
  IN  Round53([m |-> Trim(fl.limbs), e |-> LimbBits * LiteralLimbs], fl.rem # 0)

\* 1 - f for a float 0 <= f < 1
OneMinus(f) ==
  Round53([m |-> Trim(LimbsSub(LimbsPow2(f.e), f.m, 0)), e |-> f.e], FALSE)

\* k * f for an int k >= 0
FloatMulInt(k, f) == Round53([m |-> Trim(LimbsMulSmall(f.m, k, 0)), e |-> f.e], FALSE)

\* np.int(f): truncation toward zero of a float f >= 0
NpInt(f) == NatOfLimbs(ShiftRight(f.m, f.e))

\* np.int(window * (1 - overlap))
PixPerStep(window, overlap) == NpInt(FloatMulInt(window, OneMinus(FloatLiteral(overlap))))


(***************************************************************************)
(* processing.py: slide_window and get_windows                             *)
(***************************************************************************)
MaxSpan == 6
MaxWindow == 5
XOffset == 3
YOffset == 4
Overlaps == {0, 50, 75, 80}

WindowArgs(xss, yss, win, ovl) ==
  [x_start_stop |-> xss, y_start_stop |-> yss, xy_window |-> win, xy_overlap |-> ovl]

\* arguments of a direct call, drawn from small sets
DirectArgs ==
  {WindowArgs(<<x0, x0 + xspan>>, <<YOffset, YOffset + yspan>>, <<wx, wy>>, <<ox, oy>>) :
     x0 \in {0, XOffset}, xspan \in 1..MaxSpan, yspan \in 1..MaxSpan,
     wx \in 1..MaxWindow, wy \in 1..MaxWindow, ox \in Overlaps, oy \in Overlaps}

\* the three literal calls of get_windows: big, medium, small
get_windows_calls ==
  << WindowArgs(<<0, 1280>>, <<400, 650>>, <<150, 150>>, <<80, 80>>),
     WindowArgs(<<0, 1280>>, <<400, 650>>, <<100, 100>>, <<65, 65>>),
     WindowArgs(<<0, 1280>>, <<400, 550>>, <<50, 50>>, <<50, 50>>) >>

SwIdle ==
  [pc |-> "idle", args |-> WindowArgs(<<0, 0>>, <<0, 0>>, <<0, 0>>, <<0, 0>>), xspan |-> 0, yspan |-> 0,
   nx_pix_per_step |-> 0, ny_pix_per_step |-> 0, nx_windows |-> 0, ny_windows |-> 0,
   xs |-> 0, ys |-> 0, window_list |-> <<>>, exc |-> None]

SwCall(a) == [SwIdle EXCEPT !.pc = "steps", !.args = a]

\* lines 137-141: spans and pixels per step
sw_steps ==
  /\ sw.pc = "steps"
  /\ sw' = [sw EXCEPT
       !.pc = "counts",
       !.xspan = sw.args.x_start_stop[2] - sw.args.x_start_stop[1],
       !.yspan = sw.args.y_start_stop[2] - sw.args.y_start_stop[1],
       !.nx_pix_per_step = PixPerStep(sw.args.xy_window[1], sw.args.xy_overlap[1]),
       !.ny_pix_per_step = PixPerStep(sw.args.xy_window[2], sw.args.xy_overlap[2])]
  /\ UNCHANGED gw
  /\ UNCHANGED <<ld, db, env, va, hm, fv, cli, api, io, out>>

\* lines 143-146: number of windows per axis; a zero step raises
sw_counts ==
  /\ sw.pc = "counts"
  /\ IF sw.nx_pix_per_step = 0 \/ sw.ny_pix_per_step = 0
     THEN sw' = [sw EXCEPT !.pc = "raised", !.exc = Some("ZeroDivisionError")]
     ELSE sw' = [sw EXCEPT
            !.pc = "loop",
            !.nx_windows = sw.xspan \div sw.nx_pix_per_step - 1,
            !.ny_windows = sw.yspan \div sw.ny_pix_per_step - 1,
            !.window_list = <<>>, !.xs = 0, !.ys = 0]
  /\ UNCHANGED gw
  /\ UNCHANGED <<ld, db, env, va, hm, fv, cli, api, io, out>>

LoopActive == sw.ys < sw.ny_windows /\ sw.xs < sw.nx_windows

\* lines 147-156: one iteration of the nested loop
sw_append ==
  /\ sw.pc = "loop"
  /\ LoopActive
  /\ LET startx == sw.xs * sw.nx_pix_per_step + sw.args.x_start_stop[1]
         endx == startx + sw.args.xy_window[1]
         starty == sw.ys * sw.ny_pix_per_step + sw.args.y_start_stop[1]
         endy == starty + sw.args.xy_window[2]
         lastx == sw.xs + 1 = sw.nx_windows
     IN  sw' = [sw EXCEPT
           !.window_list = Append(sw.window_list, <<<<startx, endx>>, <<starty, endy>>>>),
           !.xs = IF lastx THEN 0 ELSE sw.xs + 1,
           !.ys = IF lastx THEN sw.ys + 1 ELSE sw.ys]
  /\ UNCHANGED gw
  /\ UNCHANGED <<ld, db, env, va, hm, fv, cli, api, io, out>>

\* line 158
sw_return ==
  /\ sw.pc = "loop"
  /\ ~LoopActive
  /\ sw' = [sw EXCEPT !.pc = "returned"]
  /\ UNCHANGED gw
  /\ UNCHANGED <<ld, db, env, va, hm, fv, cli, api, io, out>>

\* lines 162-176: get_windows makes its next call of slide_window
gw_call ==
  /\ gw.caller = "get_windows"
  /\ gw.pc = "call"
  /\ sw.pc = "idle"
  /\ sw' = SwCall(get_windows_calls[gw.stage])
  /\ gw' = [gw EXCEPT !.pc = "wait"]
  /\ UNCHANGED <<ld, db, env, va, hm, fv, cli, api, io, out>>

\* the call returns into big_windows, med_windows, sml_windows
gw_collect ==
  /\ gw.caller = "get_windows"
  /\ gw.pc = "wait"
  /\ sw.pc = "returned"
  /\ gw' = [gw EXCEPT !.lists = Append(gw.lists, sw.window_list),
                      !.stage = gw.stage + 1,
                      !.pc = IF gw.stage = Len(get_windows_calls) THEN "concat" ELSE "call"]
  /\ sw' = SwIdle
  /\ UNCHANGED <<ld, db, env, va, hm, fv, cli, api, io, out>>

\* line 177
gw_return ==
  /\ gw.caller = "get_windows"
  /\ gw.pc = "concat"
  /\ gw' = [gw EXCEPT !.pc = "returned",
                      !.result = gw.lists[1] \o gw.lists[2] \o gw.lists[3]]
  /\ UNCHANGED sw
  /\ UNCHANGED <<ld, db, env, va, hm, fv, cli, api, io, out>>

(***************************************************************************)
(* processing.py: draw_boxes, lines 181-189                                *)
(*                                                                         *)
(* An image is an array object on a heap of arrays; a variable holds a     *)
(* reference (the index of the object).  An array maps each pixel <<x, y>> *)
(* to a BGR colour.  A box is <<pt1, pt2>> with points <<x, y>>.           *)
(***************************************************************************)
ImageWidth == 4
ImageHeight == 4
MaxBoxes == 2

Pixels == (0..(ImageWidth - 1)) \X (0..(ImageHeight - 1))
DefaultColor == <<0, 0, 255>>
DefaultThick == 6
Colors == {DefaultColor, <<0, 255, 0>>}
Thicks == {1, DefaultThick}

Images ==
  { [p \in Pixels |-> <<0, 0, 0>>],
    [p \in Pixels |-> DefaultColor],
    [p \in Pixels |-> <<p[1], p[2], 7>>] }

BoxChoices ==
  { <<<<0, 0>>, <<3, 3>>>>,
    <<<<1, 1>>, <<2, 2>>>>,
    <<<<2, 1>>, <<5, 2>>>>,
    <<<<3, 0>>, <<1, 2>>>>,
    <<<<0, 2>>, <<1, 3>>>> }

BoxLists == UNION {[1..k -> BoxChoices] : k \in 0..MaxBoxes}

Abs(x) == IF x < 0 THEN -x ELSE x
Lo(a, b) == IF a < b THEN a ELSE b
Hi(a, b) == IF a < b THEN b ELSE a

\* the points of the outline of the rectangle with opposite corners pt1, pt2
Outline(pt1, pt2) ==
  LET x0 == Lo(pt1[1], pt2[1]) x1 == Hi(pt1[1], pt2[1])
      y0 == Lo(pt1[2], pt2[2]) y1 == Hi(pt1[2], pt2[2])
  IN  {q \in (x0..x1) \X (y0..y1) : q[1] \in {x0, x1} \/ q[2] \in {y0, y1}}

\* cv2.rectangle(im, pt1, pt2, color, thick), line 187: the pixels of the
\* image within half the thickness of the outline take the colour; what
\* falls outside the image is clipped
rectangle(im, pt1, pt2, color, thick) ==
  LET reach == thick \div 2
      painted == {p \in Pixels : \E q \in Outline(pt1, pt2) :
                    Abs(p[1] - q[1]) <= reach /\ Abs(p[2] - q[2]) <= reach}
  IN  [p \in Pixels |-> IF p \in painted THEN color ELSE im[p]]

DrawBoxesArgs(img, bboxes, color, thick) ==
  [img |-> img, bboxes |-> bboxes, color |-> color, thick |-> thick]

DbIdle ==
  [pc |-> "idle", heap |-> <<>>, before |-> <<>>,
   args |-> DrawBoxesArgs(0, <<>>, DefaultColor, DefaultThick),
   imcopy |-> 0, k |-> 0, ret |-> 0]

\* a caller holds one array, keeps its pixel values and calls draw_boxes
\* with a reference to it
DbCall(image, bboxes, color, thick) ==
  [DbIdle EXCEPT !.pc = "copy", !.heap = <<image>>, !.before = <<image>>,
                 !.args = DrawBoxesArgs(1, bboxes, color, thick)]

\* variant that draws on the array passed in
db_copy_alias ==
  /\ db.pc = "copy"
  /\ db' = [db EXCEPT !.pc = "loop", !.imcopy = db.args.img, !.k = 1]
  /\ UNCHANGED <<ld, sw, gw, env, va, hm, fv, cli, api, io, out>>

\* line 183: np.copy allocates a new array with the same pixel values
db_copy ==
  /\ db.pc = "copy"
  /\ db' = [db EXCEPT !.pc = "loop",
                      !.heap = Append(db.heap, db.heap[db.args.img]),
                      !.imcopy = Len(db.heap) + 1, !.k = 1]
  /\ UNCHANGED <<ld, sw, gw, env, va, hm, fv, cli, api, io, out>>

\* lines 185-187: the next box is drawn on imcopy, in place
db_rectangle ==
  /\ db.pc = "loop"
  /\ db.k <= Len(db.args.bboxes)
  /\ LET bbox == db.args.bboxes[db.k]
     IN  db' = [db EXCEPT
           !.heap[db.imcopy] = rectangle(db.heap[db.imcopy], bbox[1], bbox[2],
                                         db.args.color, db.args.thick),
           !.k = db.k + 1]
  /\ UNCHANGED <<ld, sw, gw, env, va, hm, fv, cli, api, io, out>>

\* line 189
db_return ==
  /\ db.pc = "loop"
  /\ db.k > Len(db.args.bboxes)
  /\ db' = [db EXCEPT !.pc = "returned", !.ret = db.imcopy]
  /\ UNCHANGED <<ld, sw, gw, env, va, hm, fv, cli, api, io, out>>

(***************************************************************************)
(* classifier.py: load_data, lines 13-45                                   *)
(*                                                                         *)
(* The data directory is what the run finds on disk: for each folder the   *)
(* names of its entries in the order the operating system lists them.  A   *)
(* name is a sequence of characters.  A path is the folder and the name.   *)
(***************************************************************************)
vehicle_folders ==
  <<"vehicles/GTI_Far/", "vehicles/GTI_Left/", "vehicles/GTI_MiddleClose/",
    "vehicles/GTI_Right/", "vehicles/KITTI_extracted/">>
non_vehicle_folders == <<"non-vehicles/Extras/", "non-vehicles/GTI/">>

Range(s) == {s[i] : i \in DOMAIN s}
Folders == Range(vehicle_folders) \cup Range(non_vehicle_folders)

PngSuffix == <<".", "p", "n", "g">>
NameA == <<"a">> \o PngSuffix
NameB == <<"b">> \o PngSuffix
NameHidden == <<".", "h">> \o PngSuffix
NameText == <<"n", ".", "t", "x", "t">>
NameNoDot == <<"a", "p", "n", "g">>
NameBroken == <<"x">> \o PngSuffix

\* entries named *.png that cv2.imread cannot decode
Unreadable == {NameBroken}

Listings ==
  { <<>>,
    <<NameB, NameText, NameA>>,
    <<NameHidden, NameNoDot>>,
    <<NameA, NameBroken>> }

DataDirs == [Folders -> Listings]

Path(folder, name) == [folder |-> folder, name |-> name]

\* glob.glob(cwd + folder + '*.png'), lines 30 and 36: the entries of the
\* folder whose name ends in ".png", in listing order; a pattern that does
\* not start with a dot skips the names that do
glob(dirs, folder) ==
  LET matches(name) ==
        /\ Len(name) >= Len(PngSuffix)
        /\ SubSeq(name, Len(name) - Len(PngSuffix) + 1, Len(name)) = PngSuffix
        /\ Head(name) # "."
      names == SelectSeq(dirs[folder], matches)
  IN  [i \in 1..Len(names) |-> Path(folder, names[i])]

LdData(features, labels, v_cnt, nv_cnt) ==
  [features |-> features, labels |-> labels, v_cnt |-> v_cnt, nv_cnt |-> nv_cnt]

LdIdle ==
  [pc |-> "idle", dirs |-> [f \in Folders |-> <<>>], folder |-> 0,
   data |-> LdData(<<>>, <<>>, 0, 0), exc |-> None]

\* line 27
LdCall(dirs) == [LdIdle EXCEPT !.pc = "vehicles", !.dirs = dirs, !.folder = 1]

\* lines 31-33 for every path of one folder
AppendVehicles(data, paths) ==
  [data EXCEPT !.features = data.features \o paths,
               !.labels = data.labels \o [i \in 1..Len(paths) |-> 1],
               !.v_cnt = data.v_cnt + Len(paths)]

\* variant that puts the paths of a folder in front of the lists
AppendNonVehicles_in_front(data, paths) ==
  [data EXCEPT !.features = paths \o data.features,
               !.labels = [i \in 1..Len(paths) |-> 0] \o data.labels,
               !.nv_cnt = data.nv_cnt + Len(paths)]

\* lines 37-39 for every path of one folder
AppendNonVehicles(data, paths) ==
  [data EXCEPT !.features = data.features \o paths,
               !.labels = data.labels \o [i \in 1..Len(paths) |-> 0],
               !.nv_cnt = data.nv_cnt + Len(paths)]

\* lines 29-33: one iteration of the loop over vehicle_folders
ld_vehicle_folder ==
  /\ ld.pc = "vehicles"
  /\ ld' = [ld EXCEPT
       !.data = AppendVehicles(ld.data, glob(ld.dirs, vehicle_folders[ld.folder])),
       !.folder = IF ld.folder = Len(vehicle_folders) THEN 1 ELSE ld.folder + 1,
       !.pc = IF ld.folder = Len(vehicle_folders) THEN "non_vehicles" ELSE "vehicles"]
  /\ UNCHANGED <<db, sw, gw, env, va, hm, fv, cli, api, io, out>>

\* lines 35-39: one iteration of the loop over non_vehicle_folders
ld_non_vehicle_folder ==
  /\ ld.pc = "non_vehicles"
  /\ ld' = [ld EXCEPT
       !.data = AppendNonVehicles(ld.data, glob(ld.dirs, non_vehicle_folders[ld.folder])),
       !.folder = IF ld.folder = Len(non_vehicle_folders) THEN 0 ELSE ld.folder + 1,
       !.pc = IF ld.folder = Len(non_vehicle_folders) THEN "extract" ELSE "non_vehicles"]
  /\ UNCHANGED <<db, sw, gw, env, va, hm, fv, cli, api, io, out>>

\* line 41, extract_features (processing.py lines 108-127): one feature
\* vector per path, in the order of the paths; an image that cannot be read
\* is None and its colour conversion raises
ld_extract_features ==
  /\ ld.pc = "extract"
  /\ ld' = IF \E i \in DOMAIN ld.data.features : ld.data.features[i].name \in Unreadable
           THEN [ld EXCEPT !.pc = "raised", !.exc = Some(Exception("cv2.error", "cvtColor"))]
           ELSE [ld EXCEPT !.pc = "scale",
                   !.data.features = [i \in DOMAIN ld.data.features |->
                                        [features_of |-> ld.data.features[i]]]]
  /\ UNCHANGED <<db, sw, gw, env, va, hm, fv, cli, api, io, out>>

\* lines 42-43: StandardScaler is fitted on the rows and transforms each
\* row in place of itself; it rejects an empty list
ld_scale ==
  /\ ld.pc = "scale"
  /\ ld' = IF ld.data.features = <<>>
           THEN [ld EXCEPT !.pc = "raised", !.exc = Some(Exception("ValueError", "StandardScaler"))]
           ELSE [ld EXCEPT !.pc = "labels",
                   !.data.features = [i \in DOMAIN ld.data.features |->
                                        [scaled |-> ld.data.features[i]]]]
  /\ UNCHANGED <<db, sw, gw, env, va, hm, fv, cli, api, io, out>>

\* lines 44-45: the labels become an array with the same elements and the
\* dictionary is returned
ld_return ==
  /\ ld.pc = "labels"
  /\ ld' = [ld EXCEPT !.pc = "returned"]
  /\ UNCHANGED <<db, sw, gw, env, va, hm, fv, cli, api, io, out>>

(***************************************************************************)
(* visualize.py: values                                                    *)
(*                                                                         *)
(* Angles and thresholds are in units of 1/40: the default threshold 0.1   *)
(* is 4, and the model's float32 predictions are multiples of 1/8 (5).     *)
(* Thresholds are the thresholds of direct calls.                          *)
(* A string is a sequence of characters; an image argument is either a     *)
(* str (a path) or an ndarray (a decoded video frame).                     *)
(***************************************************************************)
DefaultThreshold == 4
Thresholds == {0, 5}
Angles == {-10, -5, 0, 5, 10}
LayerNames == {"convolution2d_3", "convolution2d_4"}
UnknownLayer == "dense_9"

Str(s) == [kind |-> "str", v |-> s]
Ndarray(i) == [kind |-> "ndarray", v |-> [j \in 1..i |-> "px"]]

IoCall(name, arg) == [call |-> name, arg |-> arg]

HeatMapArgs(layer_name, img_path, threshold, draw_pred, draw_ground_truth, ground_truth, adaptive_grads) ==
  [layer_name |-> layer_name, img_path |-> img_path, threshold |-> threshold,
   draw_pred |-> draw_pred, draw_ground_truth |-> draw_ground_truth,
   ground_truth |-> ground_truth, adaptive_grads |-> adaptive_grads]

HmIdle ==
  [pc |-> "idle", caller |-> "none",
   args |-> HeatMapArgs(UnknownLayer, Str(<<>>), DefaultThreshold, TRUE, FALSE, None, FALSE),
   im |-> None, angle |-> None, conv_outputs |-> None, grads_val |-> None,
   output |-> None, exc |-> None, ret |-> None]

HmCall(caller, a) == [HmIdle EXCEPT !.pc = "threshold", !.caller = caller, !.args = a]

HmRaise(e) == [hm EXCEPT !.pc = "raised", !.exc = Some(e)]

Sign(x) == IF x > 0 THEN 1 ELSE IF x < 0 THEN -1 ELSE 0

(***************************************************************************)
(* VisualizeActivations._grad_cam_loss, lines 285-307.  The gradient       *)
(* tensor is held symbolically: the layer it was taken at and the          *)
(* transform applied to it.                                                *)
(***************************************************************************)
\* variant with inclusive comparisons (>= and <=)
_grad_cam_loss_inclusive(gradients, angle, threshold) ==
  IF angle >= threshold THEN gradients
  ELSE IF angle <= -threshold THEN [gradients EXCEPT !.transform = "negated"]
  ELSE [gradients EXCEPT !.transform = "gaussian", !.sign = Sign(angle)]

_grad_cam_loss(gradients, angle, threshold) ==
  IF angle > threshold THEN gradients
  ELSE IF angle < -threshold THEN [gradients EXCEPT !.transform = "negated"]
  ELSE [gradients EXCEPT !.transform = "gaussian", !.sign = Sign(angle)]

(***************************************************************************)
(* VisualizeActivations.heat_map, lines 194-283, one action per step       *)
(***************************************************************************)
\* variant without the threshold check
hm_threshold_absent ==
  /\ hm.pc = "threshold"
  /\ hm' = [hm EXCEPT !.pc = "exists"]
  /\ UNCHANGED <<va, io>>
  /\ UNCHANGED <<ld, db, sw, gw, env, fv, cli, api, out>>

\* lines 221-222
hm_threshold ==
  /\ hm.pc = "threshold"
  /\ hm' = IF hm.args.threshold = 0
           THEN HmRaise(Exception("ValueError", "Threshold must be above zero."))
           ELSE [hm EXCEPT !.pc = "exists"]
  /\ UNCHANGED <<va, io>>
  /\ UNCHANGED <<ld, db, sw, gw, env, fv, cli, api, out>>

\* lines 224, 226-227: os.path.exists(img_path).  For a str the answer is
\* whether the file is on disk.  An ndarray is no path: depending on the
\* Python version os.path.exists raises TypeError or answers False.
hm_exists ==
  /\ hm.pc = "exists"
  /\ io' = Append(io, IoCall("os.path.exists", hm.args.img_path))
  /\ \/ /\ hm.args.img_path.kind = "str"
        /\ hm' = IF hm.args.img_path.v \in env.disk
                 THEN [hm EXCEPT !.pc = "imread"]
                 ELSE HmRaise(Exception("ValueError", "Image does not exist"))
     \/ /\ hm.args.img_path.kind = "ndarray"
        /\ \/ hm' = HmRaise(Exception("TypeError", "os.path.exists"))
           \/ hm' = HmRaise(Exception("ValueError", "Image does not exist"))
  /\ UNCHANGED va
  /\ UNCHANGED <<ld, db, sw, gw, env, fv, cli, api, out>>

\* lines 225, 229
hm_imread ==
  /\ hm.pc = "imread"
  /\ io' = Append(io, IoCall("cv2.imread", hm.args.img_path))
  /\ hm' = [hm EXCEPT !.pc = "preprocess", !.im = Some(hm.args.img_path)]
  /\ UNCHANGED va
  /\ UNCHANGED <<ld, db, sw, gw, env, fv, cli, api, out>>

\* lines 231-233
hm_preprocess ==
  /\ hm.pc = "preprocess"
  /\ io' = Append(io, IoCall("preprocessor", hm.args.img_path))
  /\ hm' = [hm EXCEPT !.pc = "gradients_function"]
  /\ UNCHANGED va
  /\ UNCHANGED <<ld, db, sw, gw, env, fv, cli, api, out>>

\* variant that builds the function again when the layer name changes
hm_gradients_function_rebuild ==
  /\ hm.pc = "gradients_function"
  /\ IF \/ va._gradients_function = None
        \/ Val(va._gradients_function).outputs[2].wrt # hm.args.layer_name
     THEN IF hm.args.layer_name \in va._layer_dict
          THEN /\ va' = [va EXCEPT !._gradients_function =
                           Some([inputs |-> "model.layers[0].input",
                                 outputs |-> <<"model.output",
                                               [wrt |-> hm.args.layer_name,
                                                transform |-> "none", sign |-> 1],
                                               "pred_angle">>])]
               /\ io' = Append(io, IoCall("K.function", Str(<<hm.args.layer_name>>)))
               /\ hm' = [hm EXCEPT !.pc = "evaluate"]
          ELSE /\ hm' = HmRaise(Exception("KeyError", hm.args.layer_name))
               /\ UNCHANGED <<va, io>>
     ELSE /\ hm' = [hm EXCEPT !.pc = "evaluate"]
          /\ UNCHANGED <<va, io>>
  /\ UNCHANGED <<ld, db, sw, gw, env, fv, cli, api, out>>

\* lines 238-245: build the gradient function unless one is cached
hm_gradients_function ==
  /\ hm.pc = "gradients_function"
  /\ IF va._gradients_function = None
     THEN IF hm.args.layer_name \in va._layer_dict
          THEN /\ va' = [va EXCEPT !._gradients_function =
                           Some([inputs |-> "model.layers[0].input",
                                 outputs |-> <<"model.output",
                                               [wrt |-> hm.args.layer_name,
                                                transform |-> "none", sign |-> 1],
                                               "pred_angle">>])]
               /\ io' = Append(io, IoCall("K.function", Str(<<hm.args.layer_name>>)))
               /\ hm' = [hm EXCEPT !.pc = "evaluate"]
          ELSE /\ hm' = HmRaise(Exception("KeyError", hm.args.layer_name))
               /\ UNCHANGED <<va, io>>
     ELSE /\ hm' = [hm EXCEPT !.pc = "evaluate"]
          /\ UNCHANGED <<va, io>>
  /\ UNCHANGED <<ld, db, sw, gw, env, fv, cli, api, out>>

\* lines 249-250: evaluate the cached function on the processed frame
hm_evaluate ==
  /\ hm.pc = "evaluate"
  /\ LET f == Val(va._gradients_function)
     IN  hm' = [hm EXCEPT !.pc = "grad_cam_loss",
                          !.conv_outputs = Some(f.outputs[1]),
                          !.grads_val = Some(f.outputs[2]),
                          !.angle = Some(env.angle)]
  /\ UNCHANGED <<va, io>>
  /\ UNCHANGED <<ld, db, sw, gw, env, fv, cli, api, out>>

\* lines 253-254
hm_grad_cam_loss ==
  /\ hm.pc = "grad_cam_loss"
  /\ hm' = [hm EXCEPT
       !.pc = "cam",
       !.grads_val = IF hm.args.adaptive_grads
                     THEN Some(_grad_cam_loss(Val(hm.grads_val), Val(hm.angle),
                                              hm.args.threshold))
                     ELSE hm.grads_val]
  /\ UNCHANGED <<va, io>>
  /\ UNCHANGED <<ld, db, sw, gw, env, fv, cli, api, out>>

\* lines 257-271: activation map, normalisation, rectifier, colour map,
\* median cut (adaptive only) and overlay on the image
hm_cam ==
  /\ hm.pc = "cam"
  /\ hm' = [hm EXCEPT
       !.pc = "draw_pred",
       !.output = Some([image |-> Val(hm.im),
                        cam |-> [grads |-> Val(hm.grads_val),
                                 activations |-> Val(hm.conv_outputs)],
                        median_cut |-> hm.args.adaptive_grads,
                        lines |-> <<>>])]
  /\ UNCHANGED <<va, io>>
  /\ UNCHANGED <<ld, db, sw, gw, env, fv, cli, api, out>>

DrawLine(output, color, angle) ==
  [output EXCEPT !.lines = Append(output.lines, [color |-> color, angle |-> angle])]

\* lines 273-276
hm_draw_pred ==
  /\ hm.pc = "draw_pred"
  /\ hm' = [hm EXCEPT
       !.pc = "draw_ground_truth",
       !.output = IF hm.args.draw_pred
                  THEN Some(DrawLine(Val(hm.output), "blue", Val(hm.angle)))
                  ELSE hm.output]
  /\ UNCHANGED <<va, io>>
  /\ UNCHANGED <<ld, db, sw, gw, env, fv, cli, api, out>>

\* variant that skips the green line when no ground truth is given
hm_draw_ground_truth_lenient ==
  /\ hm.pc = "draw_ground_truth"
  /\ hm' = IF hm.args.draw_ground_truth /\ hm.args.ground_truth # None
           THEN [hm EXCEPT !.pc = "return",
                   !.output = Some(DrawLine(Val(hm.output), "green",
                                            Val(hm.args.ground_truth)))]
           ELSE [hm EXCEPT !.pc = "return"]
  /\ UNCHANGED <<va, io>>
  /\ UNCHANGED <<ld, db, sw, gw, env, fv, cli, api, out>>

\* lines 277-282
hm_draw_ground_truth ==
  /\ hm.pc = "draw_ground_truth"
  /\ hm' = IF hm.args.draw_ground_truth
           THEN IF hm.args.ground_truth = None
                THEN HmRaise(Exception("ValueError",
                                       "Ground truth steering angle cannot be None."))
                ELSE [hm EXCEPT !.pc = "return",
                        !.output = Some(DrawLine(Val(hm.output), "green",
                                                 Val(hm.args.ground_truth)))]
           ELSE [hm EXCEPT !.pc = "return"]
  /\ UNCHANGED <<va, io>>
  /\ UNCHANGED <<ld, db, sw, gw, env, fv, cli, api, out>>

\* line 283
hm_return ==
  /\ hm.pc = "return"
  /\ hm' = [hm EXCEPT !.pc = "returned", !.ret = hm.output]
  /\ UNCHANGED <<va, io>>
  /\ UNCHANGED <<ld, db, sw, gw, env, fv, cli, api, out>>


\* VisualizeActivations.__init__, lines 129-135
VaInit == [_layer_dict |-> LayerNames, epsilon |-> "1e-7", _gradients_function |-> None]

(***************************************************************************)
(* VisualizeActivations.from_video, lines 137-192                          *)
(***************************************************************************)
\* a frame count as Python sees it: an int, a str (argparse without type=)
\* or np.inf
PyInt(n) == [type |-> "int", v |-> n]
PyStr(n) == [type |-> "str", v |-> n]
PyInf == [type |-> "inf", v |-> 0]

FromVideoArgs(infile_path, outfile_path, layer_name, max_frames, threshold, draw_pred, draw_ground_truth, ground_truth) ==
  [infile_path |-> infile_path, outfile_path |-> outfile_path,
   layer_name |-> layer_name, max_frames |-> max_frames, threshold |-> threshold,
   draw_pred |-> draw_pred, draw_ground_truth |-> draw_ground_truth,
   ground_truth |-> ground_truth]

FvIdle ==
  [pc |-> "idle", caller |-> "none",
   args |-> FromVideoArgs("", "", UnknownLayer, None, DefaultThreshold, TRUE, FALSE, None),
   max_frames |-> PyInf, frames |-> <<>>, i |-> 0, exc |-> None]

FvCall(caller, a) == [FvIdle EXCEPT !.pc = "threshold", !.caller = caller, !.args = a]

FvRaise(e) == [fv EXCEPT !.pc = "raised", !.exc = Some(e)]

\* lines 167-168
fv_threshold ==
  /\ fv.pc = "threshold"
  /\ fv' = IF fv.args.threshold = 0
           THEN FvRaise(Exception("ValueError", "Threshold must be above zero."))
           ELSE [fv EXCEPT !.pc = "max_frames"]
  /\ UNCHANGED <<hm, io, out>>
  /\ UNCHANGED <<ld, db, sw, gw, env, va, cli, api>>

\* lines 170-171
fv_max_frames ==
  /\ fv.pc = "max_frames"
  /\ fv' = [fv EXCEPT !.pc = "open",
                      !.max_frames = IF fv.args.max_frames = None THEN PyInf
                                     ELSE Val(fv.args.max_frames)]
  /\ UNCHANGED <<hm, io, out>>
  /\ UNCHANGED <<ld, db, sw, gw, env, va, cli, api>>

\* lines 173-175
fv_open ==
  /\ fv.pc = "open"
  /\ io' = Append(io, IoCall("VideoFileClip", Str(<<fv.args.infile_path>>)))
  /\ fv' = [fv EXCEPT !.pc = "loop", !.frames = <<>>, !.i = 0]
  /\ UNCHANGED <<hm, out>>
  /\ UNCHANGED <<ld, db, sw, gw, env, va, cli, api>>

FvHeatMapCall ==
  HmCall("from_video",
         HeatMapArgs(fv.args.layer_name, Ndarray(fv.i + 1), fv.args.threshold,
                     fv.args.draw_pred, fv.args.draw_ground_truth,
                     fv.args.ground_truth, FALSE))

\* lines 176-188: the next decoded frame, the test i < max_frames and the
\* call of heat_map.  For a str max_frames the comparison raises TypeError
\* (Python 3) or is true (Python 2 orders every int before every str).
fv_next ==
  /\ fv.pc = "loop"
  /\ hm.pc = "idle"
  /\ IF fv.i < env.video
     THEN \/ /\ fv.max_frames.type = "inf" \/ (fv.max_frames.type = "int" /\ fv.i < fv.max_frames.v)
             /\ hm' = FvHeatMapCall
             /\ fv' = [fv EXCEPT !.pc = "wait"]
          \/ /\ fv.max_frames.type = "int" /\ ~(fv.i < fv.max_frames.v)
             /\ fv' = [fv EXCEPT !.pc = "write"]
             /\ UNCHANGED hm
          \/ /\ fv.max_frames.type = "str"
             /\ \/ /\ fv' = FvRaise(Exception("TypeError", "int < str"))
                   /\ UNCHANGED hm
                \/ /\ hm' = FvHeatMapCall
                   /\ fv' = [fv EXCEPT !.pc = "wait"]
     ELSE /\ fv' = [fv EXCEPT !.pc = "write"]
          /\ UNCHANGED hm
  /\ UNCHANGED <<io, out>>
  /\ UNCHANGED <<ld, db, sw, gw, env, va, cli, api>>

\* line 178: the heat_map call ends; its frame is appended, or its
\* exception leaves from_video
fv_append ==
  /\ fv.pc = "wait"
  /\ hm.caller = "from_video" /\ hm.pc \in {"returned", "raised"}
  /\ fv' = IF hm.pc = "returned"
           THEN [fv EXCEPT !.pc = "loop", !.frames = Append(fv.frames, Val(hm.ret)),
                           !.i = fv.i + 1]
           ELSE FvRaise(Val(hm.exc))
  /\ hm' = HmIdle
  /\ UNCHANGED <<io, out>>
  /\ UNCHANGED <<ld, db, sw, gw, env, va, cli, api>>

\* lines 190-192
fv_write ==
  /\ fv.pc = "write"
  /\ io' = Append(io, IoCall("write_videofile", Str(<<fv.args.outfile_path>>)))
  /\ out' = Some([file |-> fv.args.outfile_path, frames |-> fv.frames, fps |-> "original.fps"])
  /\ fv' = [fv EXCEPT !.pc = "returned"]
  /\ UNCHANGED hm
  /\ UNCHANGED <<ld, db, sw, gw, env, va, cli, api>>


(***************************************************************************)
(* load_data, lines 310-328                                                *)
(***************************************************************************)
\* str.replace(old, new) for a one-character old
RECURSIVE replace(_, _, _)
replace(s, old, new) ==
  IF s = <<>> THEN <<>>
  ELSE (IF Head(s) = old THEN new ELSE <<Head(s)>>) \o replace(Tail(s), old, new)

\* variant that normalises the joined string, base directory included
ImagePath_whole(path, im) == replace(replace(path \o im, " ", <<>>), "\\", <<"/">>)

\* path + str(im).replace(' ', '').replace('\\', '/')
ImagePath(path, im) == path \o replace(replace(im, " ", <<>>), "\\", <<"/">>)

load_data(path, rows) ==
  [angles |-> [k \in 1..Len(rows) |-> rows[k].SteeringAngle],
   center |-> [k \in 1..Len(rows) |-> ImagePath(path, rows[k].CenterImage)],
   right  |-> [k \in 1..Len(rows) |-> ImagePath(path, rows[k].RightImage)],
   left   |-> [k \in 1..Len(rows) |-> ImagePath(path, rows[k].LeftImage)]]

\* variant that keeps one record too many
SlicePrefix_plus_one(s, n) ==
  IF n >= 0 THEN SubSeq(s, 1, IF n + 1 < Len(s) THEN n + 1 ELSE Len(s))
  ELSE SubSeq(s, 1, IF Len(s) + n > 0 THEN Len(s) + n ELSE 0)

\* s[:n]
SlicePrefix(s, n) ==
  IF n >= 0 THEN SubSeq(s, 1, IF n < Len(s) THEN n ELSE Len(s))
  ELSE SubSeq(s, 1, IF Len(s) + n > 0 THEN Len(s) + n ELSE 0)

(***************************************************************************)
(* __main__, lines 331-394                                                 *)
(***************************************************************************)
DataCenter == <<"D", "a", "t", "a", "/", "C", "e", "n", "t", "e", "r", "/">>
OutFile == "activation_heatmap.mp4"
DefaultFps == 15

CliIdle ==
  [pc |-> "idle",
   args |-> [layer_names |-> FALSE, log |-> None, video |-> None, layer |-> UnknownLayer,
             num_frames |-> None, draw_ground_truth |-> FALSE, fps |-> DefaultFps,
             dir |-> <<>>],
   data |-> None, frames |-> <<>>, idx |-> 1, exc |-> None]

CliStart(a) == [CliIdle EXCEPT !.pc = "load_model", !.args = a]

CliRaise(e) == [cli EXCEPT !.pc = "raised", !.exc = Some(e)]

\* lines 347-351
main_load_model ==
  /\ cli.pc = "load_model"
  /\ io' = Append(io, IoCall("load_model", Str(<<"h5">>)))
  /\ cli' = [cli EXCEPT !.pc = "layer_names"]
  /\ UNCHANGED <<va, hm, fv, out>>
  /\ UNCHANGED <<ld, db, sw, gw, env, api>>

\* lines 354-356
main_layer_names ==
  /\ cli.pc = "layer_names"
  /\ IF cli.args.layer_names
     THEN /\ io' = Append(io, IoCall("model.summary", Str(<<>>)))
          /\ cli' = [cli EXCEPT !.pc = "exited"]
     ELSE /\ cli' = [cli EXCEPT !.pc = "construct"]
          /\ UNCHANGED io
  /\ UNCHANGED <<va, hm, fv, out>>
  /\ UNCHANGED <<ld, db, sw, gw, env, api>>

\* line 358
main_construct ==
  /\ cli.pc = "construct"
  /\ va' = VaInit
  /\ cli' = [cli EXCEPT !.pc = "dispatch"]
  /\ UNCHANGED <<hm, fv, io, out>>
  /\ UNCHANGED <<ld, db, sw, gw, env, api>>

\* variant that tests args.video before args.log
main_dispatch_video_first ==
  /\ cli.pc = "dispatch"
  /\ IF cli.args.video # None
     THEN /\ fv' = FvCall("main",
                     FromVideoArgs(Val(cli.args.video), OutFile, cli.args.layer,
                                   cli.args.num_frames, DefaultThreshold,
                                   TRUE, FALSE, None))
          /\ cli' = [cli EXCEPT !.pc = "from_video"]
     ELSE IF cli.args.log # None
          THEN /\ cli' = [cli EXCEPT !.pc = "load_data"]
               /\ UNCHANGED fv
          ELSE /\ cli' = CliRaise(Exception("ValueError", "You must provide some data!"))
               /\ UNCHANGED fv
  /\ UNCHANGED <<va, hm, io, out>>
  /\ UNCHANGED <<ld, db, sw, gw, env, api>>

\* lines 362, 382-394: the if / elif / else on args.log and args.video
main_dispatch ==
  /\ cli.pc = "dispatch"
  /\ IF cli.args.log # None
     THEN /\ cli' = [cli EXCEPT !.pc = "load_data"]
          /\ UNCHANGED fv
     ELSE IF cli.args.video # None
          THEN /\ fv' = FvCall("main",
                          FromVideoArgs(Val(cli.args.video), OutFile, cli.args.layer,
                                        cli.args.num_frames, DefaultThreshold,
                                        TRUE, FALSE, None))
               /\ cli' = [cli EXCEPT !.pc = "from_video"]
          ELSE /\ cli' = CliRaise(Exception("ValueError", "You must provide some data!"))
               /\ UNCHANGED fv
  /\ UNCHANGED <<va, hm, io, out>>
  /\ UNCHANGED <<ld, db, sw, gw, env, api>>

\* line 363
main_load_data ==
  /\ cli.pc = "load_data"
  /\ io' = Append(io, IoCall("pd.read_csv", Str(<<Val(cli.args.log)>>)))
  /\ cli' = [cli EXCEPT !.pc = "clip",
                        !.data = Some(load_data(cli.args.dir \o DataCenter, env.rows))]
  /\ UNCHANGED <<va, hm, fv, out>>
  /\ UNCHANGED <<ld, db, sw, gw, env, api>>

\* variant that clips `center` only
ClipData_center_only(data, n) == [data EXCEPT !.center = SlicePrefix(data.center, n)]

\* clip `center` and `angles` of a dataset to the first n records
ClipData(data, n) ==
  [data EXCEPT !.center = SlicePrefix(data.center, n),
               !.angles = SlicePrefix(data.angles, n)]

\* lines 366-371
main_clip ==
  /\ cli.pc = "clip"
  /\ cli' = [cli EXCEPT
       !.pc = "loop", !.frames = <<>>, !.idx = 1,
       !.data = IF cli.args.num_frames # None
                THEN Some(ClipData(Val(cli.data), Val(cli.args.num_frames).v))
                ELSE cli.data]
  /\ UNCHANGED <<va, hm, fv, io, out>>
  /\ UNCHANGED <<ld, db, sw, gw, env, api>>

\* the number of pairs of zip(data['center'], data['angles'])
ZipLen(data) ==
  IF Len(data.center) < Len(data.angles) THEN Len(data.center) ELSE Len(data.angles)

\* lines 372-376: the next pair and its heat_map call
main_next ==
  /\ cli.pc = "loop"
  /\ hm.pc = "idle"
  /\ cli.idx <= ZipLen(Val(cli.data))
  /\ hm' = HmCall("main",
             HeatMapArgs(cli.args.layer, Str(Val(cli.data).center[cli.idx]),
                         DefaultThreshold, TRUE, cli.args.draw_ground_truth,
                         Some(Val(cli.data).angles[cli.idx]), FALSE))
  /\ cli' = [cli EXCEPT !.pc = "wait"]
  /\ UNCHANGED <<va, fv, io, out>>
  /\ UNCHANGED <<ld, db, sw, gw, env, api>>

\* line 373: the annotated frame is appended
main_append ==
  /\ cli.pc = "wait"
  /\ hm.caller = "main" /\ hm.pc = "returned"
  /\ cli' = [cli EXCEPT !.pc = "loop", !.frames = Append(cli.frames, Val(hm.ret)),
                        !.idx = cli.idx + 1]
  /\ hm' = HmIdle
  /\ UNCHANGED <<va, fv, io, out>>
  /\ UNCHANGED <<ld, db, sw, gw, env, api>>

\* variant that drops a frame whose heat_map call failed and goes on
main_propagate_skip ==
  /\ cli.pc = "wait"
  /\ hm.caller = "main" /\ hm.pc = "raised"
  /\ cli' = [cli EXCEPT !.pc = "loop", !.idx = cli.idx + 1]
  /\ hm' = HmIdle
  /\ UNCHANGED <<va, fv, io, out>>
  /\ UNCHANGED <<ld, db, sw, gw, env, api>>

\* an exception of heat_map ends the run
main_propagate ==
  /\ cli.pc = "wait"
  /\ hm.caller = "main" /\ hm.pc = "raised"
  /\ cli' = CliRaise(Val(hm.exc))
  /\ hm' = HmIdle
  /\ UNCHANGED <<va, fv, io, out>>
  /\ UNCHANGED <<ld, db, sw, gw, env, api>>

\* lines 379-380
main_write ==
  /\ cli.pc = "loop"
  /\ cli.idx > ZipLen(Val(cli.data))
  /\ io' = Append(io, IoCall("write_videofile", Str(<<OutFile>>)))
  /\ out' = Some([file |-> OutFile, frames |-> cli.frames, fps |-> cli.args.fps])
  /\ cli' = [cli EXCEPT !.pc = "done"]
  /\ UNCHANGED <<va, hm, fv>>
  /\ UNCHANGED <<ld, db, sw, gw, env, api>>

\* lines 383-391: from_video returns or raises
main_from_video_end ==
  /\ cli.pc = "from_video"
  /\ fv.caller = "main"
  /\ \/ /\ fv.pc = "returned"
        /\ cli' = [cli EXCEPT !.pc = "done"]
     \/ /\ fv.pc = "raised"
        /\ cli' = CliRaise(Val(fv.exc))
  /\ fv' = FvIdle
  /\ UNCHANGED <<va, hm, io, out>>
  /\ UNCHANGED <<ld, db, sw, gw, env, api>>

(***************************************************************************)
(* A caller that uses one VisualizeActivations instance directly: up to    *)
(* MaxCalls calls of heat_map or from_video with arbitrary arguments.      *)
(* Each call starts with an empty I/O log and no output file.              *)
(***************************************************************************)
MaxCalls == 2
MaxVideoFrames == 2
ImageA == <<"a">>
MissingImage == <<"m">>
TruthAngle == 5

ApiHeatMapArgs ==
  {HeatMapArgs(l, p, t, dp, dg, gt, ad) :
     l \in LayerNames \cup {UnknownLayer},
     p \in {Str(ImageA), Str(MissingImage), Ndarray(1)},
     t \in Thresholds, dp \in BOOLEAN, dg \in BOOLEAN,
     gt \in {None, Some(TruthAngle)}, ad \in BOOLEAN}

ApiFromVideoArgs ==
  {FromVideoArgs("in.mp4", "out.mp4", l, mf, t, dp, dg, gt) :
     l \in {"convolution2d_4", UnknownLayer},
     mf \in {None, Some(PyStr(1))} \cup {Some(PyInt(n)) : n \in 0..MaxVideoFrames},
     t \in Thresholds, dp \in BOOLEAN, dg \in BOOLEAN,
     gt \in {None, Some(TruthAngle)}}

CallFinished(f) == f.pc \in {"idle", "returned", "raised"}

api_heat_map ==
  /\ api.active /\ api.calls < MaxCalls
  /\ CallFinished(hm) /\ CallFinished(fv)
  /\ \E a \in ApiHeatMapArgs : hm' = HmCall("api", a)
  /\ fv' = FvIdle
  /\ io' = <<>>
  /\ out' = None
  /\ api' = [api EXCEPT !.calls = api.calls + 1]
  /\ UNCHANGED <<ld, db, sw, gw, env, va, cli>>

api_from_video ==
  /\ api.active /\ api.calls < MaxCalls
  /\ CallFinished(hm) /\ CallFinished(fv)
  /\ \E a \in ApiFromVideoArgs : fv' = FvCall("api", a)
  /\ hm' = HmIdle
  /\ io' = <<>>
  /\ out' = None
  /\ api' = [api EXCEPT !.calls = api.calls + 1]
  /\ UNCHANGED <<ld, db, sw, gw, env, va, cli>>

(***************************************************************************)
(* Initial states                                                          *)
(***************************************************************************)
GwIdle == [caller |-> "none", pc |-> "idle", stage |-> 0, lists |-> <<>>, result |-> <<>>]
EnvIdle == [rows |-> <<>>, disk |-> {}, video |-> 0, angle |-> 0]
VaNone == [_layer_dict |-> {}, epsilon |-> "1e-7", _gradients_function |-> None]
ApiIdle == [active |-> FALSE, calls |-> 0]

WindowIdle == sw = SwIdle /\ gw = GwIdle /\ ld = LdIdle /\ db = DbIdle
VisualizeIdle ==
  /\ env = EnvIdle /\ va = VaNone /\ hm = HmIdle /\ fv = FvIdle
  /\ cli = CliIdle /\ api = ApiIdle /\ io = <<>> /\ out = None

InitWindow ==
  /\ \/ /\ gw = [GwIdle EXCEPT !.caller = "get_windows", !.pc = "call", !.stage = 1]
        /\ sw = SwIdle
     \/ /\ gw = [GwIdle EXCEPT !.caller = "direct", !.pc = "wait"]
        /\ \E a \in DirectArgs : sw = SwCall(a)
  /\ ld = LdIdle /\ db = DbIdle
  /\ VisualizeIdle

InitBoxes ==
  /\ \E image \in Images, bboxes \in BoxLists, color \in Colors, thick \in Thicks :
       db = DbCall(image, bboxes, color, thick)
  /\ ld = LdIdle /\ sw = SwIdle /\ gw = GwIdle
  /\ VisualizeIdle

InitData ==
  /\ \E dirs \in DataDirs : ld = LdCall(dirs)
  /\ db = DbIdle /\ sw = SwIdle /\ gw = GwIdle
  /\ VisualizeIdle

\* driving logs of the command-line runs
MaxRows == 3
MaxNumFrames == 3
CliDir == <<"w", "/">>
Row(c, l, r, a) == [CenterImage |-> c, LeftImage |-> l, RightImage |-> r, SteeringAngle |-> a]
RowChoices ==
  { Row(<<"I", "\\", "a", " ">>, <<"I", "\\", "l">>, <<"I", "\\", "r">>, 5),
    Row(<<"b">>, <<"l">>, <<"r">>, -10),
    Row(<<"m">>, <<"l">>, <<"r">>, 0) }
CliDisk == {CliDir \o DataCenter \o <<"I", "/", "a">>, CliDir \o DataCenter \o <<"b">>}
Logs(n) == UNION {[1..k -> RowChoices] : k \in 0..n}

CliArgs ==
  {[layer_names |-> ln, log |-> lg, video |-> vd, layer |-> ly, num_frames |-> nf,
    draw_ground_truth |-> dg, fps |-> DefaultFps, dir |-> CliDir] :
     ln \in BOOLEAN, lg \in {None, Some("driving_log.csv")}, vd \in {None, Some("run.mp4")},
     ly \in {"convolution2d_4", UnknownLayer},
     nf \in {None} \cup {Some(PyStr(n)) : n \in -1..MaxNumFrames},
     dg \in BOOLEAN}

InitCli ==
  /\ \E a \in CliArgs :
       /\ cli = CliStart(a)
       /\ \E rows \in (IF a.log = None \/ a.layer_names THEN {<<>>} ELSE Logs(MaxRows)),
             video \in (IF a.video = None \/ a.layer_names THEN {0} ELSE 0..MaxVideoFrames),
             angle \in {0, 5} :
            env = [rows |-> rows, disk |-> CliDisk, video |-> video, angle |-> angle]
  /\ va = VaNone /\ hm = HmIdle /\ fv = FvIdle /\ api = ApiIdle
  /\ io = <<>> /\ out = None
  /\ WindowIdle

InitApi ==
  /\ api = [active |-> TRUE, calls |-> 0]
  /\ \E video \in 0..MaxVideoFrames, angle \in Angles :
       env = [rows |-> <<>>, disk |-> {ImageA}, video |-> video, angle |-> angle]
  /\ va = VaInit /\ hm = HmIdle /\ fv = FvIdle /\ cli = CliIdle
  /\ io = <<>> /\ out = None
  /\ WindowIdle

Init == InitCli \/ InitApi

\* logs with arbitrary short path fields, for load_data
MaxFieldLen == 2
Alphabet == {"a", " ", "\\", "/"}
Fields == UNION {[1..k -> Alphabet] : k \in 1..MaxFieldLen}
SideFields == {<<"l", " ">>, <<"\\", "r">>, <<"/">>}
BaseDirs == {CliDir, <<"my", " ", "dir", "\\">>}
LoadLogs ==
  {<<Row(c, l, r, 5)>> : c \in Fields, l \in SideFields, r \in SideFields}
  \cup {<<Row(c, <<"l">>, <<"r">>, 5), Row(<<"b">>, <<"l">>, <<"r">>, -10)>> : c \in Fields}

InitLoad ==
  /\ \E d \in BaseDirs, nf \in {None, Some(PyStr(1))}, rows \in LoadLogs :
       /\ cli = [CliIdle EXCEPT !.pc = "load_data",
                                !.args.log = Some("driving_log.csv"),
                                !.args.dir = d, !.args.num_frames = nf]
       /\ env = [EnvIdle EXCEPT !.rows = rows]
  /\ va = VaInit /\ hm = HmIdle /\ fv = FvIdle /\ api = ApiIdle
  /\ io = <<>> /\ out = None
  /\ WindowIdle

(***************************************************************************)
(* Specifications                                                          *)
(***************************************************************************)
vars == <<ld, db, sw, gw, env, va, hm, fv, cli, api, io, out>>

NextWindow ==
  \/ sw_steps
  \/ sw_counts
  \/ sw_append
  \/ sw_return
  \/ gw_call
  \/ gw_collect
  \/ gw_return

NextBoxes ==
  \/ db_copy
  \/ db_rectangle
  \/ db_return

NextData ==
  \/ ld_vehicle_folder
  \/ ld_non_vehicle_folder
  \/ ld_extract_features
  \/ ld_scale
  \/ ld_return

NextLoad ==
  \/ main_load_data
  \/ main_clip

Next ==
  \/ hm_threshold
  \/ hm_exists
  \/ hm_imread
  \/ hm_preprocess
  \/ hm_gradients_function
  \/ hm_evaluate
  \/ hm_grad_cam_loss
  \/ hm_cam
  \/ hm_draw_pred
  \/ hm_draw_ground_truth
  \/ hm_return
  \/ fv_threshold
  \/ fv_max_frames
  \/ fv_open
  \/ fv_next
  \/ fv_append
  \/ fv_write
  \/ main_load_model
  \/ main_layer_names
  \/ main_construct
  \/ main_dispatch
  \/ main_load_data
  \/ main_clip
  \/ main_next
  \/ main_append
  \/ main_propagate
  \/ main_write
  \/ main_from_video_end
  \/ api_heat_map
  \/ api_from_video

SpecWindow == InitWindow /\ [][NextWindow]_vars
SpecBoxes == InitBoxes /\ [][NextBoxes]_vars
SpecData == InitData /\ [][NextData]_vars
SpecLoad == InitLoad /\ [][NextLoad]_vars
Spec == Init /\ [][Next]_vars

(***************************************************************************)
(* Properties                                                              *)
(***************************************************************************)
Min(a, b) == IF a < b THEN a ELSE b
SpanX(a) == a.x_start_stop[2] - a.x_start_stop[1]
SpanY(a) == a.y_start_stop[2] - a.y_start_stop[1]
WindowFitsSpan(a) == a.xy_window[1] <= SpanX(a) /\ a.xy_window[2] <= SpanY(a)

\* C1: with overlaps in [0,1) and a window no larger than the span on each
\* axis, every window slide_window produces lies inside the given bounds.
C1_WindowsInsideBounds ==
  WindowFitsSpan(sw.args) =>
    \A k \in 1..Len(sw.window_list) :
      LET w == sw.window_list[k]
      IN  /\ sw.args.x_start_stop[1] <= w[1][1] /\ w[1][2] <= sw.args.x_start_stop[2]
          /\ sw.args.y_start_stop[1] <= w[2][1] /\ w[2][2] <= sw.args.y_start_stop[2]

\* window size x (1 - overlap) in whole pixels, in exact arithmetic
ExactStep(window, overlap) == (window * (100 - overlap)) \div 100

\* C2: slide_window steps by window x (1 - overlap) on each axis and returns
\* (floor(xspan/step_x) - 1) x (floor(yspan/step_y) - 1) windows, each of the
\* window size, the first one at the start of both ranges; for the big
\* windows of get_windows that is a step of 30 and 41 x 7 = 287 windows.
C2_StepCountAndSize ==
  LET a == sw.args
      stepx == ExactStep(a.xy_window[1], a.xy_overlap[1])
      stepy == ExactStep(a.xy_window[2], a.xy_overlap[2])
  IN  (sw.pc \in {"returned", "raised"} /\ WindowFitsSpan(a) /\ stepx >= 1 /\ stepy >= 1) =>
        /\ sw.pc = "returned"
        /\ sw.nx_pix_per_step = stepx /\ sw.ny_pix_per_step = stepy
        /\ Len(sw.window_list) = (SpanX(a) \div stepx - 1) * (SpanY(a) \div stepy - 1)
        /\ \A k \in 1..Len(sw.window_list) :
             /\ sw.window_list[k][1][2] - sw.window_list[k][1][1] = a.xy_window[1]
             /\ sw.window_list[k][2][2] - sw.window_list[k][2][1] = a.xy_window[2]
        /\ (sw.window_list # <<>> =>
              sw.window_list[1] =
                <<<<a.x_start_stop[1], a.x_start_stop[1] + a.xy_window[1]>>,
                  <<a.y_start_stop[1], a.y_start_stop[1] + a.xy_window[2]>>>>)
        /\ (a = get_windows_calls[1] =>
              sw.nx_pix_per_step = 30 /\ Len(sw.window_list) = 287)

AfterGradCamLoss == hm.pc = "cam" /\ hm.args.adaptive_grads

\* C3 (as amended): _grad_cam_loss passes the gradients through only for an
\* angle strictly above the threshold and negates them only for an angle
\* strictly below minus the threshold; at angle = threshold and at
\* angle = -threshold it takes the Gaussian branch.
C3_BoundaryTakesGaussian ==
  AfterGradCamLoss =>
    LET angle == Val(hm.angle)
        threshold == hm.args.threshold
        g == Val(hm.grads_val)
    IN  /\ (angle > threshold => g.transform = "none")
        /\ (angle < -threshold => g.transform = "negated")
        /\ (angle = threshold \/ angle = -threshold =>
              g.transform = "gaussian" /\ g.sign = Sign(angle))
        /\ (-threshold < angle /\ angle < threshold => g.transform = "gaussian")

C3_Witness == AfterGradCamLoss /\ Val(hm.angle) = hm.args.threshold

\* C3 as stated: at angle = threshold the gradients pass through unchanged,
\* at angle = -threshold they are negated.
C3_Original ==
  AfterGradCamLoss =>
    /\ (Val(hm.angle) = hm.args.threshold => Val(hm.grads_val).transform = "none")
    /\ (Val(hm.angle) = -hm.args.threshold => Val(hm.grads_val).transform = "negated")

ThresholdError == Exception("ValueError", "Threshold must be above zero.")

NoGroundTruth(a) == a.draw_ground_truth /\ a.ground_truth = None
GroundTruthError == Exception("ValueError", "Ground truth steering angle cannot be None.")

\* C5: a heat_map call with draw_ground_truth set and ground_truth None never
\* returns a frame, for either value of draw_pred; once the image has been
\* annotated it ends with the ground-truth ValueError.
C5_NoPartialFrame ==
  (hm.pc # "idle" /\ NoGroundTruth(hm.args)) =>
     /\ hm.pc \notin {"return", "returned"}
     /\ hm.ret = None
     /\ (hm.pc = "raised" /\ hm.output # None => hm.exc = Some(GroundTruthError))
     /\ (hm.caller = "from_video" => fv.frames = <<>>)

C5_Witness ==
  /\ hm.pc = "raised" /\ NoGroundTruth(hm.args) /\ hm.args.draw_pred
  /\ hm.output # None /\ Len(Val(hm.output).lines) = 1
  /\ hm.exc = Some(GroundTruthError) /\ hm.ret = None

CsvMode == cli.pc # "idle" /\ ~cli.args.layer_names /\ cli.args.log # None
FrameLimit == Val(cli.args.num_frames).v
ExpectedFrames ==
  IF cli.args.num_frames = None THEN Len(env.rows) ELSE Min(FrameLimit, Len(env.rows))
CenterPath(k) == ImagePath(cli.args.dir \o DataCenter, env.rows[k].CenterImage)

\* C6: in CSV mode with R rows and a limit N >= 0 (or no limit), heat_map is
\* called once per row for the first min(N, R) rows in file order, each
\* with the row's own angle as ground truth, and the video written holds
\* exactly these min(N, R) frames (all R rows without a limit).
C6_CsvFrameCount ==
  (CsvMode /\ (cli.args.num_frames = None \/ FrameLimit >= 0)) =>
     /\ Len(cli.frames) <= ExpectedFrames
     /\ \A k \in 1..Len(cli.frames) : cli.frames[k].image = Str(CenterPath(k))
     /\ (hm.caller = "main" /\ hm.pc # "idle" =>
           /\ cli.idx = Len(cli.frames) + 1 /\ cli.idx <= ExpectedFrames
           /\ hm.args.img_path = Str(CenterPath(cli.idx))
           /\ hm.args.ground_truth = Some(env.rows[cli.idx].SteeringAngle))
     /\ (cli.pc = "done" =>
           /\ Len(cli.frames) = ExpectedFrames
           /\ out = Some([file |-> OutFile, frames |-> cli.frames, fps |-> cli.args.fps]))

C6_Witness ==
  /\ CsvMode /\ cli.pc = "done"
  /\ Len(env.rows) = 3 /\ cli.args.num_frames = Some(PyStr(2))
  /\ out # None /\ Len(Val(out).frames) = 2

\* C7: from_video turns every decoded frame, up to max_frames, into an
\* annotated frame and writes them as the output video.
C7_FramePerDecodedFrame ==
  (/\ fv.pc \in {"returned", "raised"}
   /\ fv.args.threshold # 0 /\ fv.args.layer_name \in LayerNames
   /\ ~NoGroundTruth(fv.args) /\ fv.max_frames.type # "str") =>
     /\ fv.pc = "returned"
     /\ out # None
     /\ Len(Val(out).frames) =
          (IF fv.max_frames.type = "inf" THEN env.video
           ELSE Min(fv.max_frames.v, env.video))

CliDispatched ==
  /\ ~cli.args.layer_names
  /\ cli.pc \notin {"idle", "load_model", "layer_names", "construct", "dispatch"}
NoDataError == Exception("ValueError", "You must provide some data!")

\* C8 (as amended): without --layer-names a visualization runs when at least
\* one of --log and --video is given.  --log wins: with both the run is
\* accepted and is the CSV mode, --video ignored; video mode runs only
\* without --log; with neither the run fails with the ValueError and writes
\* no video.
C8_LogTakesPrecedence ==
  CliDispatched =>
    /\ (cli.args.log # None =>
          /\ cli.pc \in {"load_data", "clip", "loop", "wait", "done", "raised"}
          /\ fv.pc = "idle"
          /\ cli.exc # Some(NoDataError))
    /\ (cli.args.log = None /\ cli.args.video # None =>
          /\ cli.pc \in {"from_video", "done", "raised"}
          /\ cli.data = None
          /\ cli.exc # Some(NoDataError))
    /\ (cli.args.log = None /\ cli.args.video = None =>
          cli.pc = "raised" /\ cli.exc = Some(NoDataError) /\ out = None)

C8_Witness ==
  /\ CliDispatched /\ cli.args.log # None /\ cli.args.video # None
  /\ cli.pc = "done" /\ out # None /\ Len(Val(out).frames) > 0

\* C8 as stated: a visualization runs only if exactly one of --log and
\* --video is given.
C8_Original ==
  (CliDispatched /\ cli.pc # "raised") =>
     (cli.args.log # None) # (cli.args.video # None)

\* C9 (as amended): angles and center always have equal length, left and
\* right keep one entry per row, all in file order; right after load_data
\* all four lengths are equal, and truncation clips angles and center only.
C9_DatasetLengths ==
  cli.data # None =>
    LET d == Val(cli.data)
        R == Len(env.rows)
        base == cli.args.dir \o DataCenter
    IN  /\ Len(d.angles) = Len(d.center)
        /\ Len(d.left) = R /\ Len(d.right) = R
        /\ (cli.pc = "clip" => Len(d.center) = R)
        /\ (cli.pc # "clip" /\ cli.args.num_frames # None /\ FrameLimit >= 0 =>
              Len(d.center) = Min(FrameLimit, R))
        /\ \A k \in 1..Len(d.center) :
             /\ d.center[k] = ImagePath(base, env.rows[k].CenterImage)
             /\ d.angles[k] = env.rows[k].SteeringAngle
        /\ \A k \in 1..R :
             /\ d.left[k] = ImagePath(base, env.rows[k].LeftImage)
             /\ d.right[k] = ImagePath(base, env.rows[k].RightImage)

C9_Witness ==
  /\ cli.pc = "loop" /\ cli.data # None /\ cli.args.num_frames = Some(PyStr(1))
  /\ Len(env.rows) = 3
  /\ Len(Val(cli.data).center) = 1 /\ Len(Val(cli.data).left) = 3

\* C9 as stated: the four arrays have equal length in every state of a run.
C9_Original ==
  cli.data # None =>
    LET d == Val(cli.data)
    IN  /\ Len(d.angles) = Len(d.center)
        /\ Len(d.center) = Len(d.left)
        /\ Len(d.left) = Len(d.right)

\* the field without its spaces and with every backslash turned into a slash
Normalised(field) ==
  LET kept == SelectSeq(field, LAMBDA c : c # " ")
  IN  [k \in 1..Len(kept) |-> IF kept[k] = "\\" THEN "/" ELSE kept[k]]

\* C10: every path load_data produces is the base directory, untouched,
\* followed by the raw field without its spaces and with every backslash
\* replaced by a forward slash, the other characters kept in order; this
\* holds for the center, left and right columns.
C10_PathNormalisation ==
  cli.data # None =>
    LET d == Val(cli.data)
        base == cli.args.dir \o DataCenter
    IN  /\ \A k \in 1..Len(d.center) : d.center[k] = base \o Normalised(env.rows[k].CenterImage)
        /\ \A k \in 1..Len(d.left) : d.left[k] = base \o Normalised(env.rows[k].LeftImage)
        /\ \A k \in 1..Len(d.right) : d.right[k] = base \o Normalised(env.rows[k].RightImage)

C10_Witness ==
  /\ cli.pc = "clip" /\ cli.data # None
  /\ cli.args.dir = <<"my", " ", "dir", "\\">>
  /\ env.rows[1].CenterImage = <<" ", "\\">>
  /\ Val(cli.data).center[1] = <<"my", " ", "dir", "\\">> \o DataCenter \o <<"/">>

(***************************************************************************)
(* classifier.py load_data                                                 *)
(***************************************************************************)
MaxListing == 3
AllFolders == vehicle_folders \o non_vehicle_folders

\* a visible directory entry whose name has the extension .png
IsPngFile(name) ==
  /\ Len(name) > 4 /\ name[1] # "."
  /\ name[Len(name) - 3] = "." /\ name[Len(name) - 2] = "p"
  /\ name[Len(name) - 1] = "n" /\ name[Len(name)] = "g"

\* the .png files of a list of folders, as <<folder number, entry number>>
PngFiles(folders) ==
  {x \in (1..Len(folders)) \X (1..MaxListing) :
     /\ x[2] <= Len(ld.dirs[folders[x[1]]])
     /\ IsPngFile(ld.dirs[folders[x[1]]][x[2]])}

\* where the scan meets a path: its folder's place among all folders and
\* its entry's place in the folder
ScanPosition(path) ==
  <<CHOOSE k \in DOMAIN AllFolders : AllFolders[k] = path.folder,
    CHOOSE i \in DOMAIN ld.dirs[path.folder] : ld.dirs[path.folder][i] = path.name>>

ScanBefore(p, q) ==
  LET a == ScanPosition(p) b == ScanPosition(q)
  IN  a[1] < b[1] \/ (a[1] = b[1] /\ a[2] < b[2])

RowPath(i) == ld.data.features[i].scaled.features_of

\* C11: when load_data returns, v_cnt is the number of .png files in the
\* five vehicle folders, nv_cnt the number in the two non-vehicle folders,
\* labels is v_cnt ones followed by nv_cnt zeros, and row i of the features
\* comes from the i-th .png file in scan order, a vehicle file exactly when
\* its label is 1
C11_CountsAndLabels ==
  ld.pc = "returned" =>
    LET v == Cardinality(PngFiles(vehicle_folders))
        nv == Cardinality(PngFiles(non_vehicle_folders))
    IN  /\ ld.data.v_cnt = v /\ ld.data.nv_cnt = nv
        /\ Len(ld.data.labels) = v + nv
        /\ Len(ld.data.features) = v + nv
        /\ \A i \in 1..(v + nv) :
             /\ ld.data.labels[i] = IF i <= v THEN 1 ELSE 0
             /\ IsPngFile(RowPath(i).name)
             /\ ld.data.labels[i] = 1 <=> RowPath(i).folder \in Range(vehicle_folders)
        /\ \A i, j \in 1..(v + nv) : i < j => ScanBefore(RowPath(i), RowPath(j))

C11_Witness ==
  /\ ld.pc = "returned"
  /\ ld.data.v_cnt >= 3 /\ ld.data.nv_cnt >= 2
  /\ \E f \in Range(vehicle_folders) : ld.dirs[f] = <<NameHidden, NameNoDot>>
  /\ ld.dirs[non_vehicle_folders[1]] = <<NameB, NameText, NameA>>

(***************************************************************************)
(* processing.py draw_boxes                                                *)
(***************************************************************************)
\* C12: the array passed to draw_boxes keeps every pixel value it had
\* before the call, during the call and after it; the array returned is
\* another array, which has the colour on the outline of every box and the
\* input's pixel values away from the boxes
C12_InputNotMutated ==
  db.pc # "idle" =>
    /\ db.heap[db.args.img] = db.before[1]
    /\ db.pc = "returned" =>
         /\ db.ret # db.args.img
         /\ \A k \in DOMAIN db.args.bboxes :
              \A p \in Pixels \cap Outline(db.args.bboxes[k][1], db.args.bboxes[k][2]) :
                db.heap[db.ret][p] = db.args.color
         /\ \A p \in Pixels :
              (\A k \in DOMAIN db.args.bboxes :
                 \A q \in Outline(db.args.bboxes[k][1], db.args.bboxes[k][2]) :
                   \/ Abs(p[1] - q[1]) > db.args.thick \div 2
                   \/ Abs(p[2] - q[2]) > db.args.thick \div 2)
              => db.heap[db.ret][p] = db.before[1][p]

C12_Witness ==
  /\ db.pc = "returned" /\ Len(db.args.bboxes) = 2
  /\ db.args.thick = 1
  /\ db.heap[db.ret] # db.heap[db.args.img]
  /\ \E p \in Pixels : db.heap[db.ret][p] = db.before[1][p] /\ db.before[1][p] # db.args.color

(***************************************************************************)
(* visualize.py: the cached gradient function                              *)
(***************************************************************************)
Cached == va._gradients_function # None
CachedLayer == Val(va._gradients_function).outputs[2].wrt
LeavesBuildStep == hm.pc = "gradients_function" /\ hm'.pc # "gradients_function"

\* C13: once built the gradient function is never rebuilt or invalidated;
\* a call at the build step reuses a cached function whatever layer_name it
\* passes, builds it for its own layer_name when none is cached and the
\* model has that layer, and otherwise raises KeyError and caches nothing;
\* the gradients a call evaluates are those of the cached function's layer
C13_BuiltOnceThenReused ==
  [][/\ Cached => va'._gradients_function = va._gradients_function
     /\ LeavesBuildStep =>
          IF Cached
          THEN hm'.pc = "evaluate" /\ va' = va /\ io' = io
          ELSE IF hm.args.layer_name \in va._layer_dict
               THEN /\ hm'.pc = "evaluate"
                    /\ va'._gradients_function # None
                    /\ Val(va'._gradients_function).outputs[2].wrt = hm.args.layer_name
               ELSE /\ hm'.pc = "raised" /\ Val(hm'.exc).type = "KeyError"
                    /\ va'._gradients_function = None
     /\ (hm.pc = "evaluate" /\ hm'.pc # "evaluate") =>
          Val(hm'.grads_val).wrt = CachedLayer]_vars

\* a second call evaluates the gradients of the first call's layer although
\* it names a layer the model does not have
C13_Witness ==
  /\ api.calls = 2 /\ hm.pc = "returned"
  /\ hm.args.layer_name = UnknownLayer
  /\ Cached /\ CachedLayer \in LayerNames
  /\ Val(hm.ret).cam.grads.wrt = CachedLayer

\* C13 as stated: the first call that reaches the build step builds the
\* function, so every call that leaves the build step leaves a function
\* cached
C13_Original ==
  [][LeavesBuildStep => va'._gradients_function # None]_vars

(***************************************************************************)
(* visualize.py: the tensors of the class activation map                   *)
(***************************************************************************)
\* the name of the output tensor of a layer of the model
LayerOutput(layer_name) == layer_name \o ".output"

\* C14: the activation tensor that heat_map multiplies with the gradient
\* tensor to form the activation map is the output of the named layer, the
\* layer the gradient is taken with respect to
C14_ActivationIsLayerOutput ==
  hm.output # None =>
    Val(hm.output).cam.activations = LayerOutput(Val(hm.output).cam.grads.wrt)

(***************************************************************************)
(* visualize.py: a failing frame ends the batch                            *)
(***************************************************************************)
IoCalls(name) == {k \in DOMAIN io : io[k].call = name}

\* CSV mode: the rows selected by --num-frames and the ones whose heat_map
\* call fails (image file missing, or a layer the model does not have)
SelectedCount ==
  IF cli.args.num_frames = None THEN Len(env.rows)
  ELSE Len(SlicePrefix(env.rows, FrameLimit))
CsvFrameFails(k) ==
  CenterPath(k) \notin env.disk \/ cli.args.layer \notin LayerNames
CsvFailures == {k \in 1..SelectedCount : CsvFrameFails(k)}
FirstCsvFailure == CHOOSE k \in CsvFailures : \A j \in CsvFailures : k <= j

\* C15, states: a video is written only by a run all of whose selected
\* frames were computed; a run with a failing frame writes no video,
\* processes no frame after the first failing one and ends with that
\* frame's exception
C15_States ==
  /\ (CsvMode /\ out # None) =>
       /\ CsvFailures = {} /\ cli.pc = "done"
       /\ Len(Val(out).frames) = SelectedCount
  /\ (CsvMode /\ CsvFailures # {}) =>
       /\ out = None /\ IoCalls("write_videofile") = {}
       /\ cli.idx <= FirstCsvFailure
       /\ Len(cli.frames) < FirstCsvFailure
       /\ Cardinality(IoCalls("os.path.exists")) <= FirstCsvFailure
       /\ cli.pc \notin {"done", "exited"}
       /\ cli.pc = "raised" =>
            /\ cli.idx = FirstCsvFailure /\ hm = HmIdle
            /\ Val(cli.exc).type \in {"ValueError", "KeyError"}
  /\ (fv.pc # "idle" /\ out # None) =>
       /\ fv.pc = "returned" /\ Val(out).frames = fv.frames
       /\ Cardinality(IoCalls("os.path.exists")) = Len(fv.frames)
  /\ fv.pc = "raised" =>
       /\ out = None /\ IoCalls("write_videofile") = {}
       /\ Cardinality(IoCalls("os.path.exists")) <= Len(fv.frames) + 1
  /\ (fv.pc # "idle" /\ Cardinality(IoCalls("os.path.exists")) > Len(fv.frames)) =>
       /\ out = None
       /\ fv.pc \in {"wait", "raised"}

\* C15, steps: a failed run is over: nothing is retried or resumed
C15_Steps ==
  /\ cli.pc = "raised" => UNCHANGED <<cli, hm, fv, io, out>>
  /\ (fv.pc = "raised" /\ fv' # fv) => fv'.pc \in {"idle", "threshold"}
  /\ (hm.pc = "raised" /\ hm' # hm) => hm'.pc \in {"idle", "threshold"}
  /\ (hm.pc = "raised" /\ hm.caller = "main") => (hm' = hm \/ cli'.pc = "raised")
  /\ (hm.pc = "raised" /\ hm.caller = "from_video") => (hm' = hm \/ fv'.pc = "raised")

\* C15: in both batch modes the video is written only after every selected
\* frame was computed; when heat_map fails on a frame no later frame is
\* processed, the failure propagates without retry or skipping and the run
\* writes no video
C15_FailureEndsBatch == []C15_States /\ [][C15_Steps]_vars

\* the second of three selected rows fails after the first frame was made
C15_Witness ==
  /\ CsvMode /\ cli.pc = "raised"
  /\ SelectedCount = 3 /\ FirstCsvFailure = 2
  /\ Len(cli.frames) = 1 /\ out = None

====
